---- MODULE Spec2Model ----
(***************************************************************************)
(* Family Expense Tracker: the SQLite storage layer (src/backend.py) and   *)
(* the tracker that keeps three cached views of it (src/main.py).          *)
(*                                                                         *)
(* Text is a sequence of chunks (one-character strings for names and       *)
(* categories), so that strip(), lower() and SQLite's BINARY collation are *)
(* computed and not assumed.  A Python value is a record tagged by "t":    *)
(* "none", "str", "num", "date", "member", "expense".                      *)
(***************************************************************************)
EXTENDS Integers, Sequences, FiniteSets, TLC

\* ------------------------------------------------------------------ bounds
\* AUTOINCREMENT counters are capped: no INSERT once the counter is there.
MaxMemberId == 3
MaxTxnId == 2

\* ------------------------------------------------------------------ values
None == [t |-> "none"]
Str(s) == [t |-> "str", v |-> s]
Num(n) == [t |-> "num", v |-> n]
Bool(b) == [t |-> "bool", v |-> b]

\* Python truthiness, as used by "x or y" and "if not x".
Truthy(x) ==
  CASE x.t = "none" -> FALSE
    [] x.t = "str" -> x.v # <<>>
    [] x.t = "num" -> x.v # 0
    [] x.t = "bool" -> x.v
    [] OTHER -> TRUE

\* str(x) for the values that reach it.
PyStr(x) ==
  CASE x.t = "none" -> <<"N", "o", "n", "e">>
    [] OTHER -> x.v

\* ------------------------------------------------------------------ text
\* Byte value of the characters that occur (SQLite compares TEXT with memcmp).
Code(c) ==
  CASE c = " " -> 32
    [] c = "A" -> 65
    [] c = "B" -> 66
    [] c = "F" -> 70
    [] c = "N" -> 78
    [] c = "a" -> 97
    [] c = "b" -> 98
    [] c = "d" -> 100
    [] c = "e" -> 101
    [] c = "f" -> 102
    [] c = "h" -> 104
    [] c = "n" -> 110
    [] c = "o" -> 111
    [] c = "s" -> 115
    [] OTHER -> 120

\* str.lower() on one character.
LowerChar(c) ==
  CASE c = "A" -> "a"
    [] c = "B" -> "b"
    [] c = "F" -> "f"
    [] c = "N" -> "n"
    [] OTHER -> c

Lower(s) == [i \in 1..Len(s) |-> LowerChar(s[i])]

RECURSIVE LStrip(_)
LStrip(s) == IF s # <<>> /\ Head(s) = " " THEN LStrip(Tail(s)) ELSE s

RECURSIVE RStrip(_)
RStrip(s) ==
  IF s # <<>> /\ s[Len(s)] = " " THEN RStrip(SubSeq(s, 1, Len(s) - 1)) ELSE s

\* Mutant: only the left end is stripped.
StripLeftOnly(s) == LStrip(s)

\* str.strip()
Strip(s) == RStrip(LStrip(s))

\* a < b under the BINARY collation.
RECURSIVE TextLess(_, _)
TextLess(a, b) ==
  IF b = <<>> THEN FALSE
  ELSE IF a = <<>> THEN TRUE
  ELSE IF Head(a) = Head(b) THEN TextLess(Tail(a), Tail(b))
  ELSE Code(Head(a)) < Code(Head(b))

\* ------------------------------------------------------------------ dates
\* A calendar date is its day number.  A date string is described by the
\* format it is written in and the day it denotes:
\*   "iso"       YYYY-MM-DD
\*   "dmy_dash"  DD-MM-YYYY
\*   "dmy_slash" DD/MM/YYYY
\*   "isotime"   YYYY-MM-DDTHH:MM:SS
\*   "other"     anything else (no day can be read from it)
NativeDate(d) == [t |-> "date", d |-> d]
DateText(fmt, d) == [fmt |-> fmt, d |-> d]

\* date.isoformat()
IsoFormat(d) == DateText("iso", d)

\* datetime.strptime(text, fmt).date(): None stands for the exception.
StrpTime(text, fmt) == IF text.fmt = fmt THEN NativeDate(text.d) ELSE None

\* datetime.fromisoformat(text).date(): None stands for the exception.
FromIsoFormat(text) ==
  IF text.fmt \in {"iso", "isotime"} THEN NativeDate(text.d) ELSE None

\* SQLite's date(text): NULL (None) when the text is no ISO-8601 time value.
SqlDate(text) ==
  IF text.fmt \in {"iso", "isotime"} THEN Num(text.d) ELSE None

\* date.today(), the date given to every entry of the aggregated view.
Today == 20

\* ------------------------------------------------------------------ state
VARIABLES
  db_members,     \* table members: rows [id, name, earning_status, earnings]
  db_member_seq,  \* AUTOINCREMENT counter of members
  db_txns,        \* table transactions: rows [id, value, category,
                  \*   description, date, frequency, paid_by]
  db_txn_seq,     \* AUTOINCREMENT counter of transactions
  members,        \* FamilyExpenseTracker.members
  expense_list,   \* FamilyExpenseTracker.expense_list (aggregated view)
  expense_log,    \* FamilyExpenseTracker.expense_log (chronological view)
  last            \* the call whose result the caller holds:
                  \*   [op, arg, res, before]

storage == <<db_members, db_member_seq, db_txns, db_txn_seq>>
views == <<members, expense_list, expense_log>>
vars == <<db_members, db_member_seq, db_txns, db_txn_seq,
          members, expense_list, expense_log, last>>

\* Results of a call.
Returned(x) == [t |-> "return", v |-> x]
Raised(e) == [t |-> "raise", v |-> e]

ReturnedTrue(res) == res.t = "return" /\ res.v.t = "bool" /\ res.v.v
ReturnedFalse(res) == res.t = "return" /\ res.v.t = "bool" /\ ~res.v.v
ReturnedCount(res, n) == res.t = "return" /\ res.v.t = "num" /\ res.v.v = n

\* ------------------------------------------------------------------ Backend: members
\* Mutant: id without AUTOINCREMENT, one more than the greatest id stored.
BackendAddFamilyMemberRowid(rows, seq, name, earning_status, earnings) ==
  LET n == Strip(name)
      top == IF rows = {} THEN 0
             ELSE (CHOOSE r \in rows : \A q \in rows : q.id <= r.id).id
  IN IF n = <<>> THEN
       [res |-> Raised("ValueError"), rows |-> rows, seq |-> seq]
     ELSE
       [res |-> Returned(Num(top + 1)),
        rows |-> {r \in rows : r.name # n}
                   \cup {[id |-> top + 1, name |-> n,
                          earning_status |-> IF earning_status THEN 1 ELSE 0,
                          earnings |-> earnings]},
        seq |-> seq + 1]

\* Mutant: INSERT OR IGNORE, which leaves the row of the same name alone.
BackendAddFamilyMemberIgnore(rows, seq, name, earning_status, earnings) ==
  LET n == Strip(name)
      same == {r \in rows : r.name = n}
  IN IF n = <<>> THEN
       [res |-> Raised("ValueError"), rows |-> rows, seq |-> seq]
     ELSE IF same # {} THEN
       [res |-> Returned(Num((CHOOSE r \in same : TRUE).id)), rows |-> rows,
        seq |-> seq]
     ELSE
       [res |-> Returned(Num(seq + 1)),
        rows |-> rows \cup {[id |-> seq + 1, name |-> n,
                             earning_status |-> IF earning_status THEN 1 ELSE 0,
                             earnings |-> earnings]},
        seq |-> seq + 1]

\* Backend.add_family_member: [res, rows, seq] after the call.
\* INSERT OR REPLACE deletes the row that holds the same name (the UNIQUE
\* column, compared byte by byte) and inserts a row under a fresh id.
BackendAddFamilyMember(rows, seq, name, earning_status, earnings) ==
  LET n == Strip(name) IN
  IF n = <<>> THEN
    [res |-> Raised("ValueError"), rows |-> rows, seq |-> seq]
  ELSE
    LET row == [id |-> seq + 1, name |-> n,
                earning_status |-> IF earning_status THEN 1 ELSE 0,
                earnings |-> earnings]
        kept == {r \in rows : r.name # n}
    IN [res |-> Returned(Num(seq + 1)), rows |-> kept \cup {row},
        seq |-> seq + 1]

\* Rows of a set as a sequence in ascending order of name (ORDER BY name).
RECURSIVE OrderByName(_)
OrderByName(rows) ==
  IF rows = {} THEN <<>>
  ELSE LET first == CHOOSE r \in rows :
                      \A q \in rows \ {r} : TextLess(r.name, q.name)
       IN <<first>> \o OrderByName(rows \ {first})

\* Backend.get_members
BackendGetMembers(rows) ==
  LET ordered == OrderByName(rows) IN
  [i \in 1..Len(ordered) |->
     [id |-> ordered[i].id, name |-> ordered[i].name,
      earning_status |-> ordered[i].earning_status # 0,
      earnings |-> ordered[i].earnings]]

\* Mutant: delete_family_member reports success whatever the row count.
BackendDeleteFamilyMemberSaysTrue(rows, member_id) ==
  LET hit == {r \in rows : r.id = member_id} IN
  [res |-> Returned(Bool(TRUE)), rows |-> rows \ hit]

\* Backend.delete_family_member: [res, rows]
BackendDeleteFamilyMember(rows, member_id) ==
  LET hit == {r \in rows : r.id = member_id} IN
  [res |-> Returned(Bool(hit # {})), rows |-> rows \ hit]

\* Mutant: UPDATE without its WHERE clause.
BackendUpdateFamilyMemberAll(rows, member_id, earning_status, earnings) ==
  LET hit == {r \in rows : r.id = member_id}
      set(r) == [r EXCEPT !.earning_status = IF earning_status THEN 1 ELSE 0,
                          !.earnings = earnings]
  IN [res |-> Returned(Bool(hit # {})),
      rows |-> IF hit = {} THEN rows ELSE {set(r) : r \in rows}]

\* Backend.update_family_member: [res, rows]
BackendUpdateFamilyMember(rows, member_id, earning_status, earnings) ==
  LET hit == {r \in rows : r.id = member_id}
      set(r) == [r EXCEPT !.earning_status = IF earning_status THEN 1 ELSE 0,
                          !.earnings = earnings]
  IN [res |-> Returned(Bool(hit # {})),
      rows |-> (rows \ hit) \cup {set(r) : r \in hit}]

\* SUM(column) over a set of rows; the rows are told apart by id.
RECURSIVE SumEarnings(_)
SumEarnings(rows) ==
  IF rows = {} THEN 0
  ELSE LET r == CHOOSE x \in rows : TRUE
       IN r.earnings + SumEarnings(rows \ {r})

RECURSIVE SumValue(_)
SumValue(rows) ==
  IF rows = {} THEN 0
  ELSE LET r == CHOOSE x \in rows : TRUE
       IN r.value + SumValue(rows \ {r})

\* Mutant: the earnings of every member are summed.
BackendTotalEarningsOfAll(rows) == SumEarnings(rows)

\* Backend.calculate_total_earnings
BackendTotalEarnings(rows) ==
  SumEarnings({r \in rows : r.earning_status = 1})

\* ------------------------------------------------------------------ Backend: transactions
\* The date text Backend.add_expense stores for its date argument: a date
\* object as ISO text; a string in the first of the two day-first formats
\* that parses, as ISO text; any other string as it is.
StoredDate(date_arg) ==
  IF date_arg.t = "date" THEN IsoFormat(date_arg.d)
  ELSE LET text == date_arg.v
           dash == StrpTime(text, "dmy_dash")
           slash == StrpTime(text, "dmy_slash")
       IN IF dash.t = "date" THEN IsoFormat(dash.d)
          ELSE IF slash.t = "date" THEN IsoFormat(slash.d)
          ELSE text

\* "x or default" followed by str().
StrOr(x, default) == IF Truthy(x) THEN PyStr(x) ELSE default

OneTime == <<"One-time">>

\* Mutant: an expense of a category that has a row is added into the
\* latest row of that category.
BackendAddExpenseMerges(rows, seq, value, category, description, date_arg, frequency, paid_by) ==
  IF value.t = "none" \/ value.v = 0 THEN
    [res |-> Raised("ValueError"), rows |-> rows, seq |-> seq]
  ELSE IF ~Truthy(category) \/ Strip(PyStr(category)) = <<>> THEN
    [res |-> Raised("ValueError"), rows |-> rows, seq |-> seq]
  ELSE
    LET same == {r \in rows : r.category = PyStr(category)}
        row == [id |-> seq + 1,
                value |-> value.v,
                category |-> PyStr(category),
                description |-> StrOr(description, <<>>),
                date |-> StoredDate(date_arg),
                frequency |-> StrOr(frequency, OneTime),
                paid_by |-> StrOr(paid_by, <<>>)]
    IN IF same = {} THEN
         [res |-> Returned(Num(seq + 1)), rows |-> rows \cup {row},
          seq |-> seq + 1]
       ELSE
         LET old == CHOOSE r \in same : \A q \in same : q.id <= r.id IN
         [res |-> Returned(Num(old.id)),
          rows |-> (rows \ {old})
                     \cup {[old EXCEPT !.value = old.value + value.v]},
          seq |-> seq]

\* Mutant: add_expense stores a value of 0.
BackendAddExpenseStoresZero(rows, seq, value, category, description, date_arg, frequency, paid_by) ==
  IF value.t = "none" THEN
    [res |-> Raised("ValueError"), rows |-> rows, seq |-> seq]
  ELSE IF ~Truthy(category) \/ Strip(PyStr(category)) = <<>> THEN
    [res |-> Raised("ValueError"), rows |-> rows, seq |-> seq]
  ELSE
    LET row == [id |-> seq + 1,
                value |-> value.v,
                category |-> PyStr(category),
                description |-> StrOr(description, <<>>),
                date |-> StoredDate(date_arg),
                frequency |-> StrOr(frequency, OneTime),
                paid_by |-> StrOr(paid_by, <<>>)]
    IN [res |-> Returned(Num(seq + 1)), rows |-> rows \cup {row},
        seq |-> seq + 1]

\* Backend.add_expense: [res, rows, seq] after the call.
BackendAddExpense(rows, seq, value, category, description, date_arg, frequency, paid_by) ==
  IF value.t = "none" \/ value.v = 0 THEN
    [res |-> Raised("ValueError"), rows |-> rows, seq |-> seq]
  ELSE IF ~Truthy(category) \/ Strip(PyStr(category)) = <<>> THEN
    [res |-> Raised("ValueError"), rows |-> rows, seq |-> seq]
  ELSE
    LET row == [id |-> seq + 1,
                value |-> value.v,
                category |-> PyStr(category),
                description |-> StrOr(description, <<>>),
                date |-> StoredDate(date_arg),
                frequency |-> StrOr(frequency, OneTime),
                paid_by |-> StrOr(paid_by, <<>>)]
    IN [res |-> Returned(Num(seq + 1)), rows |-> rows \cup {row},
        seq |-> seq + 1]

\* r comes before q under ORDER BY date(date) DESC, id DESC (NULL is the
\* smallest value, so rows whose date() is NULL come last).
LogBefore(r, q) ==
  LET dr == SqlDate(r.date)
      dq == SqlDate(q.date)
  IN IF dr.t = "none" /\ dq.t = "none" THEN r.id > q.id
     ELSE IF dr.t = "none" THEN FALSE
     ELSE IF dq.t = "none" THEN TRUE
     ELSE dr.v > dq.v \/ (dr.v = dq.v /\ r.id > q.id)

RECURSIVE OrderLog(_)
OrderLog(rows) ==
  IF rows = {} THEN <<>>
  ELSE LET first == CHOOSE r \in rows : \A q \in rows \ {r} : LogBefore(r, q)
       IN <<first>> \o OrderLog(rows \ {first})

\* Backend.get_expense_log without a date range.
BackendGetExpenseLog(rows) == OrderLog(rows)

\* The rows of a set in ascending order of id (the order of storage).
RECURSIVE OrderById(_)
OrderById(rows) ==
  IF rows = {} THEN <<>>
  ELSE LET first == CHOOSE r \in rows : \A q \in rows \ {r} : r.id < q.id
       IN <<first>> \o OrderById(rows \ {first})

Separator == " ||| "

\* GROUP_CONCAT(description, ' ||| ') over rows in the order given.
RECURSIVE GroupConcat(_)
GroupConcat(ordered) ==
  IF ordered = <<>> THEN <<>>
  ELSE IF Len(ordered) = 1 THEN ordered[1].description
  ELSE ordered[1].description \o <<Separator>> \o GroupConcat(Tail(ordered))

\* text.split(' ||| ')[-1]: what follows the last separator.
RECURSIVE LastPiece(_)
LastPiece(text) ==
  IF \E i \in 1..Len(text) : text[i] = Separator
  THEN LastPiece(Tail(text))
  ELSE text

Miscellaneous == <<"Miscellaneous">>

\* Mutant: the total of a group is the value of its last row.
AggregateRowLastValue(rows, c) ==
  LET group == {r \in rows : r.category = c}
      ordered == OrderById(group)
  IN [category |-> c, value |-> ordered[Len(ordered)].value,
      description |-> ordered[Len(ordered)].description]

\* One row of Backend.get_aggregated_expenses, for the group of category c.
AggregateRow(rows, c) ==
  LET group == {r \in rows : r.category = c}
      descriptions == GroupConcat(OrderById(group))
  IN [category |-> IF c = <<>> THEN Miscellaneous ELSE c,
      value |-> SumValue(group),
      description |-> IF descriptions # <<>> THEN LastPiece(descriptions)
                      ELSE <<>>]

\* The result set of the GROUP BY query, before ORDER BY.
AggregateRows(rows) == {AggregateRow(rows, c) : c \in {r.category : r \in rows}}

\* Backend.get_aggregated_expenses: the orders ORDER BY total DESC allows
\* (SQL leaves the order of equal totals open).
BackendGetAggregatedExpenses(rows) ==
  LET agg == AggregateRows(rows)
      n == Cardinality(agg)
  IN {s \in [1..n -> agg] :
        /\ \A i, j \in 1..n : i # j => s[i] # s[j]
        /\ \A i, j \in 1..n : i < j => s[i].value >= s[j].value}

\* Mutant: the category is compared trimmed and ignoring case.
BackendDeleteExpenseLoose(rows, category) ==
  LET hit == {r \in rows : Lower(Strip(r.category)) = Lower(Strip(category))} IN
  [res |-> Returned(Num(Cardinality(hit))), rows |-> rows \ hit]

\* Mutant: DELETE removes one row of the category only.
BackendDeleteExpenseOne(rows, category) ==
  LET all == {r \in rows : r.category = category}
      hit == {r \in all : \A q \in all : r.id <= q.id}
  IN [res |-> Returned(Num(Cardinality(hit))), rows |-> rows \ hit]

\* Backend.delete_expense: [res, rows]
BackendDeleteExpense(rows, category) ==
  LET hit == {r \in rows : r.category = category} IN
  [res |-> Returned(Num(Cardinality(hit))), rows |-> rows \ hit]

\* Backend.delete_log_entry: [res, rows]
BackendDeleteLogEntry(rows, txn_id) ==
  LET hit == {r \in rows : r.id = txn_id} IN
  [res |-> Returned(Bool(hit # {})), rows |-> rows \ hit]

\* Backend.calculate_total_expenditure
BackendTotalExpenditure(rows) == SumValue(rows)

\* ------------------------------------------------------------------ domain classes
\* FamilyMember.__init__
FamilyMemberInit(name, earning_status, earnings, id) ==
  [t |-> "member", id |-> id, name |-> name,
   earning_status |-> earning_status, earnings |-> earnings]

NoDescription == <<"No description">>
Unknown == <<"Unknown">>

\* The date an Expense keeps: a date object as it is; a string as the date
\* read from it (ISO first, then the two day-first formats) or, when none
\* parses, as the string.
ExpenseDate(date_arg) ==
  IF date_arg.t = "date" THEN date_arg
  ELSE LET text == date_arg.v
           iso == FromIsoFormat(text)
           dash == StrpTime(text, "dmy_dash")
           slash == StrpTime(text, "dmy_slash")
       IN IF iso.t = "date" THEN iso
          ELSE IF dash.t = "date" THEN dash
          ELSE IF slash.t = "date" THEN slash
          ELSE Str(text)

\* Expense.__init__ (value is never None where the tracker builds one).
ExpenseInit(value, category, description, date_arg, frequency, paid_by, id) ==
  [t |-> "expense", id |-> id, value |-> value, category |-> category,
   description |-> IF description # <<>> THEN description ELSE NoDescription,
   date |-> ExpenseDate(date_arg), frequency |-> frequency,
   paid_by |-> paid_by]

\* ------------------------------------------------------------------ FamilyExpenseTracker.refresh
\* The member view loaded from the members table.
RefreshMembers(mrows) ==
  LET got == BackendGetMembers(mrows) IN
  [i \in 1..Len(got) |->
     FamilyMemberInit(got[i].name, got[i].earning_status, got[i].earnings,
                      Num(got[i].id))]

\* The aggregated views that can be loaded from the transactions table.
RefreshExpenseList(trows) ==
  {[i \in 1..Len(got) |->
      ExpenseInit(got[i].value, got[i].category, got[i].description,
                  NativeDate(Today), OneTime, Unknown, None)] :
     got \in BackendGetAggregatedExpenses(trows)}

\* The date object refresh hands to Expense for a stored date text.
RefreshDate(text) ==
  LET iso == FromIsoFormat(text)
      dash == StrpTime(text, "dmy_dash")
  IN IF iso.t = "date" THEN iso
     ELSE IF dash.t = "date" THEN dash
     ELSE Str(text)

\* The log view loaded from the transactions table.
RefreshExpenseLog(trows) ==
  LET got == BackendGetExpenseLog(trows) IN
  [i \in 1..Len(got) |->
     ExpenseInit(got[i].value, got[i].category, got[i].description,
                 RefreshDate(got[i].date), got[i].frequency, got[i].paid_by,
                 Num(got[i].id))]

\* FamilyExpenseTracker.refresh, run on the tables as the call leaves them.
Refresh(mrows, trows) ==
  /\ members' = RefreshMembers(mrows)
  /\ expense_list' \in RefreshExpenseList(trows)
  /\ expense_log' = RefreshExpenseLog(trows)

\* ------------------------------------------------------------------ arguments
Asha == <<"A", "s", "h", "a">>
AshaLower == <<"a", "s", "h", "a">>
Bo == <<"B", "o">>
Food == <<"F", "o", "o", "d">>
FoodLower == <<"f", "o", "o", "d">>
Monthly == <<"Monthly">>
Milk == <<"milk">>

\* Names add member accepts (one needs trimming) and names it refuses.
ValidNameArgs == {Asha, AshaLower, <<" ">> \o Asha \o <<" ">>}
BlankNameArgs == {<<>>, <<" ">>}

\* (earning status, earnings) passed with a name.
EarningArgs == {<<TRUE, 5000>>, <<FALSE, 300>>}

\* Argument lists passed to add member.
MemberArgs ==
  {<<n, e[1], e[2]>> : n \in ValidNameArgs, e \in EarningArgs}
  \cup {<<n, TRUE, 5000>> : n \in BlankNameArgs}

ExpenseArg(value, category, description, date_arg, frequency, paid_by) ==
  [value |-> value, category |-> category, description |-> description,
   date |-> date_arg, frequency |-> frequency, paid_by |-> paid_by]

\* Argument lists add expense accepts.
ValidExpenseArgs ==
  { ExpenseArg(Num(1200), Str(Food), None, Str(DateText("iso", 10)),
               Str(Monthly), Str(Asha)),
    ExpenseArg(Num(800), Str(Food), Str(Milk), NativeDate(15),
               Str(OneTime), Str(Asha)),
    ExpenseArg(Num(0 - 800), Str(FoodLower), Str(<<>>),
               Str(DateText("dmy_dash", 15)), None, Str(AshaLower)),
    ExpenseArg(Num(800), Str(FoodLower), Str(Milk),
               Str(DateText("other", 10)), Str(Monthly), None) }

\* The same with a value of 0, and one of them with no value or with a
\* category that is blank, empty or absent.
ExpenseArgs ==
  ValidExpenseArgs
  \cup {[a EXCEPT !.value = Num(0)] : a \in ValidExpenseArgs}
  \cup {[a EXCEPT !.value = None] :
          a \in {x \in ValidExpenseArgs : x.value.v = 1200}}
  \cup {[a EXCEPT !.category = c] :
          a \in {x \in ValidExpenseArgs : x.value.v = 1200},
          c \in {Str(<<" ">>), Str(<<>>), None}}

\* ------------------------------------------------------------------ FamilyExpenseTracker
\* A call returns to its caller: what was called, with what, the result,
\* and the two tables as the call found them.
Call(op, arg, res) ==
  last' = [op |-> op, arg |-> arg, res |-> res, before |-> [members |-> db_members, txns |-> db_txns]]

\* No call is under way: the caller holds no result.
Idle ==
  [op |-> "idle", arg |-> None, res |-> Returned(None),
   before |-> [members |-> {}, txns |-> {}]]

Ready == last.op = "idle"

\* The caller has looked at the result of its call and goes on.
Acknowledge ==
  /\ ~Ready
  /\ last' = Idle
  /\ UNCHANGED <<storage, views>>

\* FamilyExpenseTracker.add_family_member
AddFamilyMember(name, earning_status, earnings) ==
  /\ Ready
  /\ LET arg == [name |-> name, earning_status |-> earning_status,
                 earnings |-> earnings]
     IN IF Strip(name) = <<>> THEN
          /\ Call("add_family_member", arg, Raised("ValueError"))
          /\ UNCHANGED <<storage, views>>
        ELSE
          LET b == BackendAddFamilyMember(db_members, db_member_seq, Strip(name),
                                          earning_status, earnings)
          IN /\ db_member_seq < MaxMemberId
             /\ db_members' = b.rows
             /\ db_member_seq' = b.seq
             /\ UNCHANGED <<db_txns, db_txn_seq>>
             /\ IF b.res.t = "raise"
                THEN UNCHANGED views
                ELSE Refresh(b.rows, db_txns)
             /\ Call("add_family_member", arg, b.res)

\* Mutant: the names are compared as they are.
GetMemberByNameExact(view, name) ==
  LET hits == {i \in 1..Len(view) : view[i].name = name} IN
  IF hits = {} THEN None
  ELSE view[CHOOSE i \in hits : \A j \in hits : i <= j]

\* FamilyExpenseTracker.get_member_by_name: the first member of the view
\* whose lowered name is the lowered argument, or None.
GetMemberByName(view, name) ==
  LET hits == {i \in 1..Len(view) : Lower(view[i].name) = Lower(name)} IN
  IF hits = {} THEN None
  ELSE view[CHOOSE i \in hits : \A j \in hits : i <= j]

\* The member_id that delete_family_member and update_family_member work
\* out of their argument: a view object, a name or an id.
ResolveMemberId(view, member) ==
  LET given ==
        IF member.t = "member"
        THEN IF Truthy(member.id) THEN member.id ELSE Str(member.name)
        ELSE member
  IN IF given.t = "str"
     THEN LET m == GetMemberByName(view, given.v)
          IN IF m.t = "none" THEN None ELSE m.id
     ELSE given

\* Mutant: deleting a member also deletes the transactions it paid.
DeleteFamilyMemberCascade(member) ==
  /\ Ready
  /\ LET member_id == ResolveMemberId(members, member)
         b == IF member_id.t = "none"
              THEN [res |-> Returned(Bool(FALSE)), rows |-> db_members]
              ELSE BackendDeleteFamilyMember(db_members, member_id.v)
         gone == {r.name : r \in db_members \ b.rows}
         kept == {r \in db_txns : r.paid_by \notin gone}
     IN /\ db_members' = b.rows
        /\ db_txns' = kept
        /\ UNCHANGED <<db_member_seq, db_txn_seq>>
        /\ Refresh(b.rows, kept)
        /\ Call("delete_family_member", member, b.res)

\* FamilyExpenseTracker.delete_family_member
DeleteFamilyMember(member) ==
  /\ Ready
  /\ LET member_id == ResolveMemberId(members, member)
         b == IF member_id.t = "none"
              THEN [res |-> Returned(Bool(FALSE)), rows |-> db_members]
              ELSE BackendDeleteFamilyMember(db_members, member_id.v)
     IN /\ db_members' = b.rows
        /\ UNCHANGED <<db_member_seq, db_txns, db_txn_seq>>
        /\ Refresh(b.rows, db_txns)
        /\ Call("delete_family_member", member, b.res)

\* FamilyExpenseTracker.update_family_member
UpdateFamilyMember(member, earning_status, earnings) ==
  /\ Ready
  /\ LET member_id == ResolveMemberId(members, member)
         arg == [member |-> member, earning_status |-> earning_status,
                 earnings |-> earnings]
     IN IF member_id.t = "none" THEN
          /\ Call("update_family_member", arg, Returned(Bool(FALSE)))
          /\ UNCHANGED <<storage, views>>
        ELSE
          LET b == BackendUpdateFamilyMember(db_members, member_id.v,
                                             earning_status, earnings)
          IN /\ db_members' = b.rows
             /\ UNCHANGED <<db_member_seq, db_txns, db_txn_seq>>
             /\ Refresh(b.rows, db_txns)
             /\ Call("update_family_member", arg, b.res)

\* FamilyExpenseTracker.add_expense
AddExpense(a) ==
  /\ Ready
  /\ IF a.value.t = "none" \/ a.value.v = 0 THEN
       /\ Call("add_expense", a, Raised("ValueError"))
       /\ UNCHANGED <<storage, views>>
     ELSE IF Strip(PyStr(a.category)) = <<>> THEN
       /\ Call("add_expense", a, Raised("ValueError"))
       /\ UNCHANGED <<storage, views>>
     ELSE
       LET b == BackendAddExpense(db_txns, db_txn_seq, a.value, a.category,
                                  a.description, a.date, a.frequency, a.paid_by)
       IN /\ b.res.t = "return" => db_txn_seq < MaxTxnId
          /\ db_txns' = b.rows
          /\ db_txn_seq' = b.seq
          /\ UNCHANGED <<db_members, db_member_seq>>
          /\ IF b.res.t = "raise"
             THEN UNCHANGED views
             ELSE Refresh(db_members, b.rows)
          /\ Call("add_expense", a, b.res)

\* FamilyExpenseTracker.delete_expense; the argument is an Expense object
\* or a value without a category attribute.
DeleteExpense(expense) ==
  /\ Ready
  /\ LET category == IF expense.t = "expense" THEN Str(expense.category) ELSE None
     IN IF ~Truthy(category) THEN
          /\ Call("delete_expense", expense, Returned(Num(0)))
          /\ UNCHANGED <<storage, views>>
        ELSE
          LET b == BackendDeleteExpense(db_txns, category.v)
          IN /\ db_txns' = b.rows
             /\ UNCHANGED <<db_members, db_member_seq, db_txn_seq>>
             /\ Refresh(db_members, b.rows)
             /\ Call("delete_expense", expense, b.res)

\* Mutant: delete_log_entry reports an entry without id as not deleted.
DeleteLogEntryLenient(log_entry) ==
  /\ Ready
  /\ LET txn_id == IF log_entry.t = "expense" THEN log_entry.id ELSE None
         b == IF txn_id.t = "none"
              THEN [res |-> Returned(Bool(FALSE)), rows |-> db_txns]
              ELSE BackendDeleteLogEntry(db_txns, txn_id.v)
     IN /\ db_txns' = b.rows
        /\ UNCHANGED <<db_members, db_member_seq, db_txn_seq>>
        /\ Refresh(db_members, b.rows)
        /\ Call("delete_log_entry", log_entry, b.res)

\* Mutant: delete_log_entry returns without reloading the views.
DeleteLogEntryNoRefresh(log_entry) ==
  /\ Ready
  /\ LET txn_id == IF log_entry.t = "expense" THEN log_entry.id ELSE None
     IN IF txn_id.t = "none" THEN
          /\ Call("delete_log_entry", log_entry, Raised("ValueError"))
          /\ UNCHANGED <<storage, views>>
        ELSE
          LET b == BackendDeleteLogEntry(db_txns, txn_id.v)
          IN /\ db_txns' = b.rows
             /\ UNCHANGED <<db_members, db_member_seq, db_txn_seq, views>>
             /\ Call("delete_log_entry", log_entry, b.res)

\* FamilyExpenseTracker.delete_log_entry; the argument is an Expense object
\* or a value without an id attribute.
DeleteLogEntry(log_entry) ==
  /\ Ready
  /\ LET txn_id == IF log_entry.t = "expense" THEN log_entry.id ELSE None
     IN IF txn_id.t = "none" THEN
          /\ Call("delete_log_entry", log_entry, Raised("ValueError"))
          /\ UNCHANGED <<storage, views>>
        ELSE
          LET b == BackendDeleteLogEntry(db_txns, txn_id.v)
          IN /\ db_txns' = b.rows
             /\ UNCHANGED <<db_members, db_member_seq, db_txn_seq>>
             /\ Refresh(db_members, b.rows)
             /\ Call("delete_log_entry", log_entry, b.res)

\* ------------------------------------------------------------------ derived queries
\* Mutant: the payer is compared ignoring case.
RECURSIVE SumPaidByIgnoringCase(_, _)
SumPaidByIgnoringCase(log, member_name) ==
  IF log = <<>> THEN 0
  ELSE (IF Lower(Head(log).paid_by) = Lower(member_name)
        THEN Head(log).value ELSE 0)
       + SumPaidByIgnoringCase(Tail(log), member_name)

\* sum(exp.value for exp in log if exp.paid_by == member_name)
RECURSIVE SumPaidBy(_, _)
SumPaidBy(log, member_name) ==
  IF log = <<>> THEN 0
  ELSE (IF Head(log).paid_by = member_name THEN Head(log).value ELSE 0)
       + SumPaidBy(Tail(log), member_name)

\* FamilyExpenseTracker.calculate_member_contribution
CalculateMemberContribution(member_name) == SumPaidBy(expense_log, member_name)

\* FamilyExpenseTracker.calculate_total_earnings
CalculateTotalEarnings == BackendTotalEarnings(db_members)

\* FamilyExpenseTracker.calculate_total_expenditure
CalculateTotalExpenditure == BackendTotalExpenditure(db_txns)

\* FamilyExpenseTracker.get_summary_stats
GetSummaryStats ==
  [total_members |-> Len(members),
   earning_members |->
     Cardinality({i \in 1..Len(members) : members[i].earning_status}),
   total_earnings |-> CalculateTotalEarnings,
   total_expenses |-> CalculateTotalExpenditure,
   balance |-> CalculateTotalEarnings - CalculateTotalExpenditure,
   total_transactions |-> Len(expense_log),
   categories_used |->
     Cardinality({expense_list[i].category : i \in 1..Len(expense_list)})]

\* ------------------------------------------------------------------ export
\* str(x) of a float holding a whole number: sign, digits, ".0".
FloatText(v) ==
  [neg |-> v < 0, whole |-> IF v < 0 THEN 0 - v ELSE v, frac |-> 0]

\* csv.writer puts a field between quotes when it holds a delimiter, a quote
\* or a line break.
CsvField(text) ==
  [quoted |-> \E i \in 1..Len(text) : text[i] \in {",", "\"", "\n"},
   body |-> text]

\* Backend.export_csv without a date range: the header, then one line per
\* row of get_expense_log.
BackendExportCsv(rows) ==
  LET got == BackendGetExpenseLog(rows) IN
  << <<"Date", "Paid By", "Category", "Description", "Value", "Frequency">> >>
  \o [i \in 1..Len(got) |->
        <<got[i].date, CsvField(got[i].paid_by), CsvField(got[i].category),
          CsvField(got[i].description), FloatText(got[i].value),
          CsvField(got[i].frequency)>>]

\* FamilyExpenseTracker.export_csv_bytes
ExportCsvBytes == BackendExportCsv(db_txns)

\* ------------------------------------------------------------------ specification
Init ==
  /\ db_members = {}
  /\ db_member_seq = 0
  /\ db_txns = {}
  /\ db_txn_seq = 0
  /\ members = <<>>
  /\ expense_list = <<>>
  /\ expense_log = <<>>
  /\ last = Idle

\* What the caller passes for a member: an object of the member view, a
\* FamilyMember built from a name alone, a name (Bo is nobody's), or an id
\* (the first one issued: the id of a member, or of none once it is gone).
MemberObjects == {members[i] : i \in 1..Len(members)}
MemberNoId == {FamilyMemberInit(Asha, TRUE, 0, None)}
MemberNames == {Str(AshaLower), Str(Bo)}
MemberIds == {Num(1)}

\* What the caller passes for an expense: an entry of either view, an
\* Expense built by hand (with the last id that can be issued; with a
\* category in another case than stored, with a space before it, or empty),
\* or a bare id.
ListObjects == {expense_list[i] : i \in 1..Len(expense_list)}
LogObjects == {expense_log[i] : i \in 1..Len(expense_log)}
HandMade ==
  {ExpenseInit(800, c, <<>>, NativeDate(Today), OneTime, Unknown, Num(MaxTxnId)) :
     c \in {FoodLower, <<" ">> \o Food, <<>>}}
TxnIds == {Num(MaxTxnId)}

\* Calls come one at a time: the next one is made once the caller is done
\* with the result of the last.
Next ==
  \/ \E a \in MemberArgs : AddFamilyMember(a[1], a[2], a[3])
  \/ \E m \in MemberObjects : DeleteFamilyMember(m)
  \/ \E m \in MemberNoId : DeleteFamilyMember(m)
  \/ \E m \in MemberNames : DeleteFamilyMember(m)
  \/ \E m \in MemberIds : DeleteFamilyMember(m)
  \/ \E m \in MemberObjects, e \in EarningArgs : UpdateFamilyMember(m, e[1], e[2])
  \/ \E m \in MemberNames, e \in EarningArgs : UpdateFamilyMember(m, e[1], e[2])
  \/ \E m \in MemberIds, e \in EarningArgs : UpdateFamilyMember(m, e[1], e[2])
  \/ \E a \in ExpenseArgs : AddExpense(a)
  \/ \E x \in ListObjects : DeleteExpense(x)
  \/ \E x \in HandMade : DeleteExpense(x)
  \/ \E x \in TxnIds : DeleteExpense(x)
  \/ \E x \in LogObjects : DeleteLogEntry(x)
  \/ \E x \in ListObjects : DeleteLogEntry(x)
  \/ \E x \in HandMade : DeleteLogEntry(x)
  \/ \E x \in TxnIds : DeleteLogEntry(x)
  \/ Acknowledge

Spec == Init /\ [][Next]_vars

\* ------------------------------------------------------------------ a household of three names
\* The member calls with a third name, unlike the other two in every case,
\* and one expense to see the transactions left alone.
BoLower == <<"b", "o">>
FamilyArgs ==
  {<<n, e[1], e[2]>> : n \in {Asha, AshaLower, <<" ">> \o Bo \o <<" ">>},
                       e \in EarningArgs}

\* A member is named by an object of the view, by an object without id, by
\* a name in lower case, or by the first id issued.
FamilyTargets ==
  MemberObjects \cup MemberNoId \cup {Str(AshaLower), Str(BoLower)} \cup MemberIds

PaidExpenseArgs == {a \in ValidExpenseArgs : a.value.v = 1200}

MemberNext ==
  \/ \E a \in FamilyArgs : AddFamilyMember(a[1], a[2], a[3])
  \/ \E m \in FamilyTargets : DeleteFamilyMember(m)
  \/ \E m \in FamilyTargets, e \in EarningArgs : UpdateFamilyMember(m, e[1], e[2])
  \/ \E a \in PaidExpenseArgs : AddExpense(a)
  \/ Acknowledge

MemberSpec == Init /\ [][MemberNext]_vars

\* ------------------------------------------------------------------ expenses told apart by description
\* Expenses of one category whose descriptions differ: plain, holding the
\* text ' ||| ', empty; the later ones inserted carry the earlier dates.
\* One expense of another category.
Tea == <<"tea", Separator, "bread">>
Rice == <<"rice">>
DescribedExpenseArgs ==
  { ExpenseArg(Num(1200), Str(Food), Str(Milk), Str(DateText("iso", 15)),
               Str(Monthly), Str(Asha)),
    ExpenseArg(Num(800), Str(Food), Str(Tea), NativeDate(10),
               Str(OneTime), Str(Asha)),
    ExpenseArg(Num(800), Str(Food), Str(<<>>), NativeDate(5),
               Str(OneTime), Str(Asha)),
    ExpenseArg(Num(300), Str(FoodLower), Str(Rice), NativeDate(10),
               Str(OneTime), Str(Asha)) }

DescriptionNext ==
  \/ \E a \in DescribedExpenseArgs : AddExpense(a)
  \/ \E x \in ListObjects : DeleteExpense(x)
  \/ \E x \in LogObjects : DeleteLogEntry(x)
  \/ Acknowledge

DescriptionSpec == Init /\ [][DescriptionNext]_vars

\* ------------------------------------------------------------------ two trackers on one database
\* Every FamilyExpenseTracker opens the same database file.  The calls of a
\* second tracker change the tables between two calls of this one; this
\* tracker's views are reloaded by its own calls only.
OtherAddFamilyMember(name, earning_status, earnings) ==
  /\ Ready
  /\ db_member_seq < MaxMemberId
  /\ LET b == BackendAddFamilyMember(db_members, db_member_seq, Strip(name),
                                     earning_status, earnings)
     IN /\ b.res.t = "return"
        /\ db_members' = b.rows
        /\ db_member_seq' = b.seq
  /\ UNCHANGED <<db_txns, db_txn_seq, views, last>>

OtherDeleteFamilyMember(member_id) ==
  /\ Ready
  /\ LET b == BackendDeleteFamilyMember(db_members, member_id)
     IN /\ ReturnedTrue(b.res)
        /\ db_members' = b.rows
  /\ UNCHANGED <<db_member_seq, db_txns, db_txn_seq, views, last>>

OtherAddExpense(a) ==
  /\ Ready
  /\ db_txn_seq < MaxTxnId
  /\ LET b == BackendAddExpense(db_txns, db_txn_seq, a.value, a.category,
                                a.description, a.date, a.frequency, a.paid_by)
     IN /\ b.res.t = "return"
        /\ db_txns' = b.rows
        /\ db_txn_seq' = b.seq
  /\ UNCHANGED <<db_members, db_member_seq, views, last>>

OtherDeleteLogEntry(txn_id) ==
  /\ Ready
  /\ LET b == BackendDeleteLogEntry(db_txns, txn_id)
     IN /\ ReturnedTrue(b.res)
        /\ db_txns' = b.rows
  /\ UNCHANGED <<db_members, db_member_seq, db_txn_seq, views, last>>

SharedMemberArgs == {<<Asha, TRUE, 5000>>}

SharedNext ==
  \/ \E a \in SharedMemberArgs : AddFamilyMember(a[1], a[2], a[3])
  \/ \E m \in MemberObjects : DeleteFamilyMember(m)
  \/ \E a \in PaidExpenseArgs : AddExpense(a)
  \/ \E x \in LogObjects : DeleteLogEntry(x)
  \/ Acknowledge
  \/ \E a \in SharedMemberArgs : OtherAddFamilyMember(a[1], a[2], a[3])
  \/ \E r \in db_members : OtherDeleteFamilyMember(r.id)
  \/ \E a \in PaidExpenseArgs : OtherAddExpense(a)
  \/ \E r \in db_txns : OtherDeleteLogEntry(r.id)

SharedSpec == Init /\ [][SharedNext]_vars

\* ------------------------------------------------------------------ properties
\* The member m of the view shows the row r of the members table.
MemberShowsRow(m, r) ==
  /\ m.id = Num(r.id)
  /\ m.name = r.name
  /\ m.earning_status = (r.earning_status = 1)
  /\ m.earnings = r.earnings

\* The entry e of the log view shows the row r of the transactions table
\* (an empty description is shown by the placeholder, a date text by the
\* date it denotes when it denotes one).
LogShowsRow(e, r) ==
  /\ e.id = Num(r.id)
  /\ e.value = r.value
  /\ e.category = r.category
  /\ e.frequency = r.frequency
  /\ e.paid_by = r.paid_by
  /\ IF r.description = <<>> THEN e.description = NoDescription
     ELSE e.description = r.description
  /\ IF SqlDate(r.date).t = "num"
     THEN e.date.t = "date" /\ e.date.d = SqlDate(r.date).v
     ELSE e.date.t = "str" /\ e.date.v = r.date

\* C1: after any sequence of tracker calls the three views show the tables:
\* one member of the view per row of members, one log entry per row of
\* transactions, one aggregated entry per stored category holding the sum
\* of that category's rows.
C1_ViewsReflectStorage ==
  /\ Len(members) = Cardinality(db_members)
  /\ \A r \in db_members :
       \E i \in 1..Len(members) : MemberShowsRow(members[i], r)
  /\ Len(expense_log) = Cardinality(db_txns)
  /\ \A r \in db_txns :
       \E i \in 1..Len(expense_log) : LogShowsRow(expense_log[i], r)
  /\ LET cats == {r.category : r \in db_txns} IN
       /\ Len(expense_list) = Cardinality(cats)
       /\ \A c \in cats :
            \E i \in 1..Len(expense_list) :
              /\ expense_list[i].category = c
              /\ expense_list[i].value =
                   SumValue({r \in db_txns : r.category = c})

\* A row of each table is left and shown after a log entry was deleted.
C1_Witness ==
  /\ last.op = "delete_log_entry"
  /\ ReturnedTrue(last.res)
  /\ db_txns # {}
  /\ db_members # {}
  /\ Len(expense_log) = Cardinality(db_txns)

RECURSIVE SumCategory(_, _)
SumCategory(log, c) ==
  IF log = <<>> THEN 0
  ELSE (IF Head(log).category = c THEN Head(log).value ELSE 0)
       + SumCategory(Tail(log), c)

\* C2: the aggregated entry of a category holds the sum of the log entries
\* of that category, and the categories with an aggregated entry are the
\* categories of the log entries, each with one entry.
C2_AggregateEqualsLogSum ==
  /\ {expense_list[i].category : i \in 1..Len(expense_list)}
       = {expense_log[i].category : i \in 1..Len(expense_log)}
  /\ \A i \in 1..Len(expense_list) :
       expense_list[i].value = SumCategory(expense_log, expense_list[i].category)
  /\ \A i, j \in 1..Len(expense_list) :
       expense_list[i].category = expense_list[j].category => i = j

\* Two log entries of one category whose values cancel: the category keeps
\* its aggregated entry, with value 0.
C2_Witness ==
  /\ Len(expense_log) = 2
  /\ expense_log[1].category = expense_log[2].category
  /\ expense_log[1].value # expense_log[2].value
  /\ Len(expense_list) = 1
  /\ expense_list[1].value = 0

\* C3 (as claimed): no two rows of members hold names equal ignoring case.
C3_NamesUniqueIgnoringCase ==
  \A r, q \in db_members : r.id # q.id => Lower(r.name) # Lower(q.name)

\* C4: delete_expense called with an entry of the aggregated view leaves no
\* row, no aggregated entry and no log entry of that entry's category.
C4_DeleteByCategoryRemovesAll ==
  [][\A i \in 1..Len(expense_list) :
       (/\ last'.op = "delete_expense"
        /\ last'.arg.t = "expense"
        /\ last'.arg = expense_list[i])
       => /\ \A r \in db_txns' : r.category # expense_list[i].category
          /\ \A j \in 1..Len(expense_list') :
               expense_list'[j].category # expense_list[i].category
          /\ \A j \in 1..Len(expense_log') :
               expense_log'[j].category # expense_list[i].category]_vars

\* delete_expense with an aggregated entry removed the two rows of its
\* category.
C4_Witness ==
  /\ last.op = "delete_expense"
  /\ last.arg.t = "expense"
  /\ last.arg.id.t = "none"
  /\ ReturnedCount(last.res, 2)

ZeroValue(a) == a.value.t = "num" /\ a.value.v = 0

\* C5: add expense with value 0 raises and changes neither the tables nor
\* the views, through the tracker and through the storage call, whatever
\* the other arguments are.
C5_ZeroValueRejected ==
  /\ [][(last'.op = "add_expense" /\ ZeroValue(last'.arg))
        => (last'.res.t = "raise" /\ UNCHANGED <<storage, views>>)]_vars
  /\ [](\A a \in ExpenseArgs :
          ZeroValue(a) =>
            LET b == BackendAddExpense(db_txns, db_txn_seq, a.value,
                                       a.category, a.description, a.date,
                                       a.frequency, a.paid_by)
            IN b.res.t = "raise" /\ b.rows = db_txns /\ b.seq = db_txn_seq)

\* A value of 0 was refused while both tables hold rows.
C5_Witness ==
  /\ last.op = "add_expense"
  /\ ZeroValue(last.arg)
  /\ last.res.t = "raise"
  /\ db_txns # {}
  /\ db_members # {}
  /\ Len(expense_log) = Cardinality(db_txns)

Entries(view) == {view[i] : i \in 1..Len(view)}

\* C6: delete member removes at most the one row it resolved (exactly one
\* when it returns true) and leaves the transactions table, the log view
\* and the entries of the aggregated view as they were.
C6_DeleteMemberNoCascade ==
  [][last'.op = "delete_family_member" =>
       /\ db_txns' = db_txns
       /\ db_txn_seq' = db_txn_seq
       /\ expense_log' = expense_log
       /\ Len(expense_list') = Len(expense_list)
       /\ Entries(expense_list') = Entries(expense_list)
       /\ db_members' \subseteq db_members
       /\ Cardinality(db_members \ db_members') =
            (IF ReturnedTrue(last'.res) THEN 1 ELSE 0)
       /\ (last'.arg.t = "member" /\ Truthy(last'.arg.id)) =>
            \A r \in db_members \ db_members' : Num(r.id) = last'.arg.id]_vars

\* A member was deleted and a transaction paid by that name is still stored.
C6_Witness ==
  /\ last.op = "delete_family_member"
  /\ ReturnedTrue(last.res)
  /\ last.arg.t = "member"
  /\ \E r \in db_txns : r.paid_by = last.arg.name
  /\ \A m \in db_members : m.name # last.arg.name
  /\ \E i \in 1..Len(expense_log) : expense_log[i].paid_by = last.arg.name

\* Names a contribution is asked for.
PayerArgs == {Asha, AshaLower, Bo, <<>>, Unknown}

\* C7: the contribution of a name is the sum of the stored transactions
\* whose payer is exactly that name (0 when there is none), member or not.
C7_ContributionIsPayerSum ==
  \A n \in PayerArgs :
    /\ CalculateMemberContribution(n) = SumValue({r \in db_txns : r.paid_by = n})
    /\ (\A i \in 1..Len(expense_log) : expense_log[i].paid_by # n)
         => CalculateMemberContribution(n) = 0

\* Two names equal but for case have their own contributions; one is the
\* name of a member and the other is not.
C7_Witness ==
  /\ CalculateMemberContribution(Asha) = 1200
  /\ CalculateMemberContribution(AshaLower) = 0 - 800
  /\ CalculateMemberContribution(Bo) = 0
  /\ \E r \in db_members : r.name = AshaLower
  /\ \A r \in db_members : r.name # Asha

RECURSIVE SumEarningOfView(_)
SumEarningOfView(view) ==
  IF view = <<>> THEN 0
  ELSE (IF Head(view).earning_status THEN Head(view).earnings ELSE 0)
       + SumEarningOfView(Tail(view))

RECURSIVE SumValueOfView(_)
SumValueOfView(view) ==
  IF view = <<>> THEN 0
  ELSE Head(view).value + SumValueOfView(Tail(view))

\* Asha earning 5000 is the only member; two Food expenses of 1200 and 800
\* paid by Asha are the only transactions.
AshaScenario ==
  /\ \E m \in db_members :
       /\ db_members = {m}
       /\ m.name = Asha /\ m.earning_status = 1 /\ m.earnings = 5000
  /\ Cardinality(db_txns) = 2
  /\ {r.value : r \in db_txns} = {1200, 800}
  /\ \A r \in db_txns : r.category = Food /\ r.paid_by = Asha

\* C8: balance = total earnings - total expenditure, total earnings being
\* the earnings of the members flagged earning and total expenditure the
\* sum of all transaction values; and the figures of the Asha scenario.
C8_SummaryStats ==
  LET s == GetSummaryStats IN
  /\ s.balance = s.total_earnings - s.total_expenses
  /\ s.total_earnings = SumEarningOfView(members)
  /\ s.total_expenses = SumValueOfView(expense_log)
  /\ AshaScenario =>
       /\ Len(expense_list) = 1
       /\ expense_list[1].category = Food
       /\ expense_list[1].value = 2000
       /\ s.total_expenses = 2000
       /\ s.balance = 3000
       /\ CalculateMemberContribution(Asha) = 2000

\* The Asha scenario.
C8_Witness == AshaScenario /\ GetSummaryStats.total_earnings = 5000

\* What a reader of the export gets from one line: the texts between the
\* delimiters, the value read as a number.
ParseFloatText(t) == IF t.neg THEN 0 - t.whole ELSE t.whole
ReparsedExport ==
  LET csv == ExportCsvBytes IN
  [i \in 1..(Len(csv) - 1) |->
     <<csv[i + 1][1], csv[i + 1][2].body, csv[i + 1][3].body,
       csv[i + 1][4].body, ParseFloatText(csv[i + 1][5]), csv[i + 1][6].body>>]

\* str(date) of a log entry's date.
DateString(d) == IF d.t = "date" THEN IsoFormat(d.d) ELSE d.v

LogTuples ==
  [i \in 1..Len(expense_log) |->
     <<DateString(expense_log[i].date), expense_log[i].paid_by,
       expense_log[i].category, expense_log[i].description,
       expense_log[i].value, expense_log[i].frequency>>]

\* C9 (as claimed): the lines of the unfiltered export, read back, are the
\* tuples of the log view, in the same order.
C9_ExportRoundTrip == ReparsedExport = LogTuples

BlankName(a) == Strip(a.name) = <<>>
MissingValue(a) == a.value.t = "none" \/ ZeroValue(a)
BlankCategory(a) ==
  a.category.t = "none" \/ Strip(a.category.v) = <<>>
NoIdentifier(x) == IF x.t = "expense" THEN x.id.t = "none" ELSE TRUE

\* C10 (as claimed): a call raises only for add member with a blank name
\* and add expense with a zero or missing value or with a category that is
\* absent, empty or whitespace.
C10_OnlyThreeErrorCases ==
  last.res.t = "raise" =>
    \/ last.op = "add_family_member" /\ BlankName(last.arg)
    \/ last.op = "add_expense"
         /\ (MissingValue(last.arg) \/ BlankCategory(last.arg))

\* C10 (amended): a call raises exactly for add member with a blank name,
\* add expense with a zero or missing value or with a category that is
\* absent, empty or whitespace, and delete log entry with an argument that
\* carries no id; delete member,
\* update member and delete by category always return (a boolean, a count).
C10_ErrorCases ==
  /\ last.res.t = "raise" <=>
       \/ last.op = "add_family_member" /\ BlankName(last.arg)
       \/ last.op = "add_expense"
            /\ (MissingValue(last.arg) \/ BlankCategory(last.arg))
       \/ last.op = "delete_log_entry" /\ NoIdentifier(last.arg)
  /\ last.op \in {"delete_family_member", "update_family_member"}
       => last.res.t = "return" /\ last.res.v.t = "bool"
  /\ last.op = "delete_expense"
       => last.res.t = "return" /\ last.res.v.t = "num"
  /\ (last.op = "delete_log_entry" /\ last.res.t = "return")
       => last.res.v.t = "bool"

\* delete log entry was called with an entry that has no id and raised.
C10_Witness ==
  /\ last.op = "delete_log_entry"
  /\ last.res.t = "raise"
  /\ last.arg.t = "expense"

\* No member of the view has the name n, ignoring case.
NameUnmatched(view, n) == \A i \in 1..Len(view) : Lower(view[i].name) # Lower(n)

\* The member argument m of a tracker call names nobody: an id (its own or
\* that of the object) no row of members has, or else a name no member of
\* the view has.
NamesNobody(m) ==
  CASE m.t = "num" -> \A r \in db_members : r.id # m.v
    [] m.t = "str" -> NameUnmatched(members, m.v)
    [] m.t = "member" ->
         IF m.id.t = "num" /\ m.id.v # 0
         THEN \A r \in db_members : r.id # m.id.v
         ELSE NameUnmatched(members, m.name)
    [] OTHER -> FALSE

\* Identifiers that can be asked for, issued or not.
AnyMemberId == 0..(MaxMemberId + 1)
AnyTxnId == 0..(MaxTxnId + 1)

\* C11: delete member, update member and delete transaction on an id that
\* no row has return false and leave both tables as they are, at the storage
\* and through the tracker; tracker delete and update member with a name no
\* member of the view has return false and leave both tables as they are.
C11_AbsentTargetIsNoOp ==
  /\ [](/\ \A id \in AnyMemberId :
            (\A r \in db_members : r.id # id) =>
              /\ BackendDeleteFamilyMember(db_members, id)
                   = [res |-> Returned(Bool(FALSE)), rows |-> db_members]
              /\ \A e \in EarningArgs :
                   BackendUpdateFamilyMember(db_members, id, e[1], e[2])
                     = [res |-> Returned(Bool(FALSE)), rows |-> db_members]
        /\ \A id \in AnyTxnId :
            (\A r \in db_txns : r.id # id) =>
              BackendDeleteLogEntry(db_txns, id)
                = [res |-> Returned(Bool(FALSE)), rows |-> db_txns])
  /\ [][/\ (last'.op = "delete_family_member" /\ NamesNobody(last'.arg))
            => (ReturnedFalse(last'.res) /\ UNCHANGED storage)
        /\ (last'.op = "update_family_member" /\ NamesNobody(last'.arg.member))
            => (ReturnedFalse(last'.res) /\ UNCHANGED storage)
        /\ (/\ last'.op = "delete_log_entry"
            /\ last'.arg.t = "expense"
            /\ last'.arg.id.t = "num"
            /\ \A r \in db_txns : r.id # last'.arg.id.v)
            => (ReturnedFalse(last'.res) /\ UNCHANGED storage)]_vars

\* Delete member was called with the id of a member deleted earlier, while
\* other members and transactions are stored.
C11_Witness ==
  /\ last.op = "delete_family_member"
  /\ last.arg.t = "num"
  /\ last.arg.v <= db_member_seq
  /\ ReturnedFalse(last.res)
  /\ db_members # {}
  /\ db_txns # {}

\* C12 (as claimed): every row of transactions has a value other than 0 and
\* a date text in the form YYYY-MM-DD from which a calendar date is read.
C12_StoredDatesCanonical ==
  \A r \in db_txns :
    /\ r.value # 0
    /\ r.date.fmt = "iso"
    /\ SqlDate(r.date).t = "num"
    /\ FromIsoFormat(r.date).t = "date"

\* The text n is empty or holds spaces only.
OnlySpaces(n) == \A i \in 1..Len(n) : n[i] = " "

\* The text t is the text n without the spaces at its two ends.
TrimmedOf(n, t) ==
  /\ t # <<>>
  /\ t[1] # " "
  /\ t[Len(t)] # " "
  /\ \E i \in 0..Len(n) :
       /\ i + Len(t) <= Len(n)
       /\ SubSeq(n, i + 1, i + Len(t)) = t
       /\ OnlySpaces(SubSeq(n, 1, i))
       /\ OnlySpaces(SubSeq(n, i + Len(t) + 1, Len(n)))

\* C13: add member with an empty or all-space name raises and leaves the
\* tables and the views as they are (the storage call alone raises as
\* well); with any other name it returns an id, and members then holds a
\* row of that id whose name is the given name without its outer spaces,
\* which the member view lists.
C13_BlankNameRejected ==
  /\ [][last'.op = "add_family_member" =>
         IF OnlySpaces(last'.arg.name)
         THEN last'.res.t = "raise" /\ UNCHANGED <<storage, views>>
         ELSE /\ last'.res.t = "return"
              /\ last'.res.v.t = "num"
              /\ \E r \in db_members' :
                   /\ r.id = last'.res.v.v
                   /\ TrimmedOf(last'.arg.name, r.name)
                   /\ \E i \in 1..Len(members') :
                        members'[i].id = last'.res.v /\ members'[i].name = r.name]_vars
  /\ [](\A n \in BlankNameArgs :
          BackendAddFamilyMember(db_members, db_member_seq, n, TRUE, 5000)
            = [res |-> Raised("ValueError"), rows |-> db_members,
               seq |-> db_member_seq])

\* A name given with a space at either end was stored without them, next
\* to another member.
C13_Witness ==
  /\ last.op = "add_family_member"
  /\ last.res.t = "return"
  /\ last.arg.name # <<>>
  /\ last.arg.name[1] = " "
  /\ \E r \in db_members : r.id = last.res.v.v /\ r.name = Asha
  /\ Cardinality(db_members) = 2

\* The last call was add member with a name that, trimmed, a row of members
\* already had: n is that name.
UpsertOf(n) ==
  /\ last.op = "add_family_member"
  /\ TrimmedOf(last.arg.name, n)
  /\ \E r \in last.before.members : r.name = n

C15_LogOrdered ==
  \A i, j \in 1..Len(expense_log) :
    i < j =>
      LET e1 == expense_log[i]
          e2 == expense_log[j]
      IN /\ e1.date.t = "date"
         /\ e2.date.t = "date"
         /\ \/ e1.date.d > e2.date.d
            \/ e1.date.d = e2.date.d /\ e1.id.v > e2.id.v

\* C16 (as claimed): every figure of get_summary_stats, and the
\* contribution of every name, is the figure worked out from this tracker's
\* member view, log view and aggregated view.
C16_DerivedQueriesFromCache ==
  LET s == GetSummaryStats IN
  /\ s.total_members = Len(members)
  /\ s.earning_members =
       Cardinality({i \in 1..Len(members) : members[i].earning_status})
  /\ s.total_earnings = SumEarningOfView(members)
  /\ s.total_expenses = SumValueOfView(expense_log)
  /\ s.balance = SumEarningOfView(members) - SumValueOfView(expense_log)
  /\ s.total_transactions = Len(expense_log)
  /\ s.categories_used =
       Cardinality({expense_list[i].category : i \in 1..Len(expense_list)})
  /\ \A n \in PayerArgs :
       CalculateMemberContribution(n) = SumPaidBy(expense_log, n)

\* C17: no step changes a row of transactions that it leaves in the table
\* (a row of the same id is the same row before and after), and an add
\* expense that returns adds one row, under the returned id, which no row
\* had, to the rows that were there.
C17_LogRowsImmutable ==
  [][/\ \A r \in db_txns, q \in db_txns' : r.id = q.id => r = q
     /\ (last'.op = "add_expense" /\ last'.res.t = "return") =>
          /\ db_txns \subseteq db_txns'
          /\ Cardinality(db_txns') = Cardinality(db_txns) + 1
          /\ \A q \in db_txns' \ db_txns :
               /\ Num(q.id) = last'.res.v
               /\ \A r \in db_txns : r.id # q.id
     /\ last'.op \in {"add_family_member", "delete_family_member",
                      "update_family_member"} => db_txns' = db_txns
     /\ last'.op \in {"delete_expense", "delete_log_entry"}
          => db_txns' \subseteq db_txns]_vars

\* An expense was added to a table that held one of the same category,
\* which is still there as it was.
C17_Witness ==
  /\ last.op = "add_expense"
  /\ last.res.t = "return"
  /\ Cardinality(last.before.txns) = 1
  /\ last.before.txns \subseteq db_txns
  /\ Cardinality(db_txns) = 2
  /\ \A r, q \in db_txns : r.category = q.category

\* The id a member argument carries: its own, or that of the object (0,
\* which no row has, when it carries none).
TargetId(m) ==
  CASE m.t = "num" -> m.v
    [] m.t = "member" -> IF m.id.t = "num" THEN m.id.v ELSE 0
    [] OTHER -> 0

\* The rows as an UPDATE of the row of this id alone leaves them.
RowsWithOneSet(rows, id, earning_status, earnings) ==
  {IF r.id = id
   THEN [id |-> r.id, name |-> r.name,
         earning_status |-> IF earning_status THEN 1 ELSE 0,
         earnings |-> earnings]
   ELSE r : r \in rows}

\* C18: update member on an id some row has (at the storage, or through the
\* tracker with the id or an object that carries it) returns true and
\* leaves members as it was but for the earning status and earnings of the
\* row of that id, which are the values given: same names, same ids, same
\* number of rows; the transactions are as they were.
C18_UpdateSetsOneMember ==
  /\ \A r \in db_members, e \in EarningArgs :
       LET b == BackendUpdateFamilyMember(db_members, r.id, e[1], e[2]) IN
       /\ ReturnedTrue(b.res)
       /\ b.rows = RowsWithOneSet(db_members, r.id, e[1], e[2])
       /\ Cardinality(b.rows) = Cardinality(db_members)
  /\ (/\ last.op = "update_family_member"
      /\ \E r \in last.before.members : r.id = TargetId(last.arg.member))
     => /\ ReturnedTrue(last.res)
        /\ db_members = RowsWithOneSet(last.before.members,
                                       TargetId(last.arg.member),
                                       last.arg.earning_status,
                                       last.arg.earnings)
        /\ Cardinality(db_members) = Cardinality(last.before.members)
        /\ db_txns = last.before.txns

\* The member of id 1, stored as earning 5000 with two others and a
\* transaction, was set to not earning with 300.
C18_Witness ==
  /\ last.op = "update_family_member"
  /\ last.arg.member = Num(1)
  /\ ReturnedTrue(last.res)
  /\ \E r \in last.before.members :
       r.id = 1 /\ r.earning_status = 1 /\ r.earnings = 5000
  /\ \E r \in db_members :
       r.id = 1 /\ r.earning_status = 0 /\ r.earnings = 300
  /\ Cardinality(db_members) = 3
  /\ db_txns # {}

\* The member argument m is a name, or an object that carries no id.
GivenByName(m) ==
  m.t = "str" \/ (m.t = "member" /\ (m.id.t = "none" \/ m.id = Num(0)))
GivenName(m) == IF m.t = "str" THEN m.v ELSE m.name

\* r has the name n, ignoring case.
SameNameIgnoringCase(r, n) == Lower(r.name) = Lower(n)

\* C19: tracker delete member and update member given a name, or an object
\* without id, whose name some member of the view has ignoring case return
\* true and act on one row, whose name is the given name ignoring case
\* (delete removes that row and no other, update sets that row and no
\* other); matched or not, every row whose name differs from the given name
\* ignoring case is left as it was.
C19_NameResolvedIgnoringCase ==
  [][/\ (last'.op = "delete_family_member" /\ GivenByName(last'.arg)) =>
          LET n == GivenName(last'.arg) IN
          /\ (\E i \in 1..Len(members) : SameNameIgnoringCase(members[i], n))
               => /\ ReturnedTrue(last'.res)
                  /\ \E r \in db_members :
                       /\ SameNameIgnoringCase(r, n)
                       /\ db_members' = db_members \ {r}
          /\ \A r \in db_members :
               ~SameNameIgnoringCase(r, n) => r \in db_members'
          /\ db_members' \subseteq db_members
     /\ (last'.op = "update_family_member" /\ GivenByName(last'.arg.member)) =>
          LET n == GivenName(last'.arg.member) IN
          /\ (\E i \in 1..Len(members) : SameNameIgnoringCase(members[i], n))
               => /\ ReturnedTrue(last'.res)
                  /\ \E r \in db_members :
                       /\ SameNameIgnoringCase(r, n)
                       /\ db_members' =
                            RowsWithOneSet(db_members, r.id,
                                           last'.arg.earning_status,
                                           last'.arg.earnings)
          /\ \A r \in db_members :
               ~SameNameIgnoringCase(r, n) => r \in db_members'
          /\ Cardinality(db_members') = Cardinality(db_members)]_vars

\* Delete member was given the name bo: the member Bo is gone, the two
\* members of another name are stored as they were.
C19_Witness ==
  /\ last.op = "delete_family_member"
  /\ last.arg = Str(BoLower)
  /\ ReturnedTrue(last.res)
  /\ \E r \in last.before.members : r.name = Bo
  /\ \A r \in db_members : r.name # Bo
  /\ Cardinality(db_members) = 2
  /\ db_members \subseteq last.before.members

\* Categories a delete is asked for: as stored, in the other case, with a
\* space before or after.
CategoryArgs ==
  {Food, FoodLower, <<" ">> \o Food, Food \o <<" ">>, Miscellaneous}

\* C20: delete by category C returns the number of rows of transactions
\* whose category is exactly C and removes those rows and no other (none,
\* returning 0, when no row has it; rows whose category differs from C in
\* case or by a space at an end stay), at the storage and through the
\* tracker, which leaves the members as they were.
C20_DeleteByCategoryExact ==
  /\ [](\A c \in CategoryArgs :
          LET b == BackendDeleteExpense(db_txns, c)
              exact == {r \in db_txns : r.category = c}
          IN /\ ReturnedCount(b.res, Cardinality(exact))
             /\ b.rows = db_txns \ exact
             /\ exact = {} => b.rows = db_txns)
  /\ [][(/\ last'.op = "delete_expense"
         /\ last'.arg.t = "expense"
         /\ last'.arg.category # <<>>) =>
          LET exact == {r \in db_txns : r.category = last'.arg.category} IN
          /\ ReturnedCount(last'.res, Cardinality(exact))
          /\ db_txns' = db_txns \ exact
          /\ db_members' = db_members
          /\ exact = {} => (ReturnedCount(last'.res, 0) /\ UNCHANGED storage)]_vars

\* Delete by category food removed the one row of that category; the row
\* of category Food is stored as it was.
C20_Witness ==
  /\ last.op = "delete_expense"
  /\ last.arg.t = "expense"
  /\ last.arg.category = FoodLower
  /\ ReturnedCount(last.res, 1)
  /\ db_txns # {}
  /\ \A r \in db_txns : r.category = Food
  /\ db_txns \subseteq last.before.txns
  /\ db_members # {}

\* The row of category c with the greatest id.
LastRowOf(rows, c) ==
  CHOOSE r \in rows :
    r.category = c /\ \A q \in rows : q.category = c => q.id <= r.id

\* C21 (as claimed): the description of every row of the aggregate by
\* category, and of every entry of the aggregated view, is the description
\* of the stored transaction of that category with the greatest id (shown
\* by the placeholder in the view when it is empty).
C21_DescriptionOfLastRow ==
  /\ \A a \in AggregateRows(db_txns) :
       a.description = LastRowOf(db_txns, a.category).description
  /\ \A i \in 1..Len(expense_list) :
       LET d == LastRowOf(db_txns, expense_list[i].category).description IN
       expense_list[i].description = (IF d = <<>> THEN NoDescription ELSE d)

\* The member argument m is an id that was issued and that no row has.
RetiredId(m) ==
  /\ m.t = "num"
  /\ m.v \in 1..db_member_seq
  /\ \A r \in db_members : r.id # m.v

====
